---- MODULE Spec2Model ----
(***************************************************************************)
(* A model of the rust_runtime crate: the work-stealing executor           *)
(* (src/src/executor/*.rs), the JoinHandle / JoinNotifier pair             *)
(* (src/src/join_handle.rs) and the CancellationToken                      *)
(* (src/src/cancellation.rs).                                              *)
(*                                                                         *)
(* Threads are modelled as interleaved atomic steps.  A step is one access *)
(* to shared memory (an atomic load or store, a queue operation, a mutex   *)
(* critical section) together with the thread-local code around it.        *)
(***************************************************************************)
EXTENDS Integers, Sequences, FiniteSets, TLC

\* ------------------------------------------------------------------ bounds
NumWorkers == 2
MaxTasks == 2

MaxTokens == 3
NumStates == 2
NumCancellers == 2
NumPollers == 1

Workers == 1..NumWorkers
Tasks == 1..MaxTasks
NoTask == 0
NoWorker == 0
Tokens == 1..MaxTokens          \* CancellationToken values
States == 1..NumStates          \* CancellationState allocations
Cancellers == 1..NumCancellers  \* threads calling cancel()
Pollers == 1..NumPollers        \* CancelledFuture values, each with its waker
NoState == 0
NoToken == 0

NumSleepers == 2
MaxTime == 3
MaxDuration == 2
MaxWakes == 1
NumWakers == 3
Wakers == 1..NumWakers          \* the wakers a JoinHandle is polled with
NoWaker == 0
Sleepers == 1..NumSleepers      \* SleepFuture values, each with its waker
Times == 0..MaxTime             \* Instant, in clock units
Durations == 0..MaxDuration     \* Duration, in clock units
Instants == 0..(MaxTime + MaxDuration)  \* the deadlines a sleep can have
NoTime == -1                    \* Option<Instant>::None

\* The values a spawned `async { v }` may return (the tests return 42); Unit
\* stands for ().
Values == {42}
Unit == 0

\* The futures a caller hands to Spawner::spawn:
\*   "value"  async { counter += 1; v }                 (never suspends)
\*   "panic"  async { panic!() }
\*   "join"   async { if let Ok(v) = handle.await { store v } }
\*   "parent" async { counter += 1; let _ = spawner.spawn(async { counter += 1 }) }
Kinds == {"value", "panic", "join", "parent"}

\* Option<Result<T, JoinError>>
None == [tag |-> "None", val |-> Unit]
Ok(v) == [tag |-> "Ok", val |-> v]
ErrPanicked == [tag |-> "Panicked", val |-> Unit]

VARIABLES
    \* Runtime
    queue,        \* global_queue: Injector<Arc<Task>>, a FIFO of task references
    is_shutdown,  \* is_shutdown: AtomicBool
    started,      \* Runtime::run has been called
    \* Task (one per spawn call that passed the shutdown check)
    kind,         \* the future boxed into the Task ("none": not created yet)
    target,       \* a "join" future: the task whose JoinHandle it owns
    val,          \* a "value" future: the value it returns
    future_slot,  \* Task.future: "Some" | "None" ("Unborn": no such Task yet)
    flock,        \* the worker holding the Task.future mutex, or NoWorker
    fpc,          \* where the wrapped future stands
    \* JoinState (one per Task)
    result,       \* JoinState.result
    rlock,        \* the worker holding the JoinState.result mutex, or NoWorker
    jwaker,       \* JoinState.waker: the Task a stored Waker re-enqueues, or NoTask
    handle,       \* who owns the JoinHandle: "none" | "caller" | "moved" | "dropped"
    \* worker threads
    wpc,          \* "idle" | "steal" | "empty" | "execute" | "blocked" | "poll" | "ended"
    cur,          \* the Task a worker stole
    \* the submitting thread and the thread in RuntimeHandle::wait
    spc,          \* "idle" | "push": between the shutdown check and the push
    spawnRet,     \* what the last Spawner::spawn call of the caller returned
    waitReturned, \* RuntimeHandle::wait has returned
    \* observations (history)
    polls,        \* poll steps given to the task's future
    bodyRuns,     \* executions of the future's body (its counter increment)
    panicked,     \* a poll step of the task panicked
    completions,  \* absent -> present transitions of JoinState.result
    jwakes,       \* invocations of a waker taken from JoinState.waker
    got,          \* what `handle.await` yielded to a "join" future
    beforeShutdown, \* the push happened while is_shutdown was still false
    beforeRun,    \* the push happened before Runtime::run
    \* CancellationToken / CancellationState
    tinner,       \* token.inner: the CancellationState it points to, or NoState
    tvia,         \* how the token was made: "none" | "new" | "clone" | "child"
    tparent,      \* the token it was cloned or derived from, or NoToken
    troot,        \* the token made by new() it descends from
    is_cancelled, \* CancellationState.is_cancelled: AtomicBool
    cwakers,      \* CancellationState.wakers: Vec<Waker>
    cpc,          \* a cancel() call: "idle" | "flagged" | "waking"
    ctok,         \* the token cancel() was called on
    cdrain,       \* its local `wakers`, taken out of the state
    cancelReturned, \* cancel() has returned on the token
    obs,          \* the last is_cancelled() call: its token and what it returned
    seenTrue,     \* the token on which is_cancelled() first returned true, per state
    pfut,         \* CancelledFuture.inner, or NoState
    ppc,          \* its poll: "none" | "created" | "push" | "recheck" | "pending" | "ready"
    pwake,        \* its waker was invoked and the poll that follows is due
    woken,        \* invocations of its waker
    \* the owner of a JoinHandle
    finObs,       \* what is_finished() last returned on the handle of the Task
    wakeups,      \* invocations of the Task's waker by other holders of it (history)
    \* a JoinHandle polled by hand, with any waker, and its JoinNotifier
    jstate,       \* the JoinState: [result, waker, guard]
    jpoll,        \* JoinHandle::poll: [pc, cx, out], cx the waker of its Context
    jcomp,        \* JoinNotifier::complete: "idle" | "installed" | "done"
    jhist,        \* [stored, invoked]: wakers stored, wakers invoked (history)
    \* the clock, SleepFuture, TimerRegistry and Reactor
    now,          \* Instant::now()
    slpc,         \* a SleepFuture: "none" | "created" | "register" | "pending" | "ready"
    deadline,     \* SleepFuture.deadline
    is_registered, \* SleepFuture.is_registered
    timers,       \* TimerRegistry.timers: deadline -> Vec<Waker> (<<>>: no such key)
    registry_lock, \* Reactor.registry mutex: "free" | "reactor"
    notified,     \* a notify_one reached the reactor waiting on the condvar
    rpc,          \* the reactor thread: "lock" | "loop" | "park" | "wait" | "wait_for" | "dispatch"
    rdeadline,    \* its `deadline` in park_until
    rwakers,      \* its `wakers` in process_ready_timers
    t0,           \* the clock when sleep(d) was called (history)
    dur,          \* the d of sleep(d) (history)
    readyAt,      \* the clock reading of the poll that returned Ready (history)
    regAt,        \* the clock when the waker was registered (history)
    fired,        \* the wakers the reactor invoked, in order (history)
    popNow,       \* the `now` of the last pop_ready_wakers (history)
    popFrom       \* the registry it was applied to (history)

taskVars == <<kind, target, val, future_slot, flock, fpc>>
joinVars == <<result, rlock, jwaker, handle>>
workerVars == <<wpc, cur>>
callerVars == <<spc, spawnRet, waitReturned>>
histVars == <<polls, bodyRuns, panicked, completions, jwakes, got,
              beforeShutdown, beforeRun>>
execVars == <<queue, is_shutdown, started, taskVars, joinVars, workerVars,
              callerVars, histVars>>
tokenVars == <<tinner, tvia, tparent, troot>>
cancelVars == <<tokenVars, is_cancelled, cwakers, cpc, ctok, cdrain,
                cancelReturned, obs, seenTrue, pfut, ppc, pwake, woken>>
handleVars == <<jstate, jpoll, jcomp, jhist>>
ownerVars == <<finObs, wakeups, handleVars>>
sleepVars == <<slpc, deadline, is_registered, t0, dur, readyAt, regAt>>
reactorVars == <<timers, registry_lock, notified, rpc, rdeadline, rwakers,
                 fired, popNow, popFrom>>
timerVars == <<now, sleepVars, reactorVars>>
vars == <<execVars, cancelVars, ownerVars, timerVars>>

\* Runtime::new, and nothing spawned yet.
ExecInit ==
    /\ queue = <<>>
    /\ is_shutdown = FALSE
    /\ started = FALSE
    /\ kind = [t \in Tasks |-> "none"]
    /\ target = [t \in Tasks |-> NoTask]
    /\ val = [t \in Tasks |-> Unit]
    /\ future_slot = [t \in Tasks |-> "Unborn"]
    /\ flock = [t \in Tasks |-> NoWorker]
    /\ fpc = [t \in Tasks |-> "start"]
    /\ result = [t \in Tasks |-> None]
    /\ rlock = [t \in Tasks |-> NoWorker]
    /\ jwaker = [t \in Tasks |-> NoTask]
    /\ handle = [t \in Tasks |-> "none"]
    /\ wpc = [w \in Workers |-> "idle"]
    /\ cur = [w \in Workers |-> NoTask]
    /\ spc = "idle"
    /\ spawnRet = "none"
    /\ waitReturned = FALSE
    /\ polls = [t \in Tasks |-> 0]
    /\ bodyRuns = [t \in Tasks |-> 0]
    /\ panicked = [t \in Tasks |-> FALSE]
    /\ completions = [t \in Tasks |-> 0]
    /\ jwakes = [t \in Tasks |-> 0]
    /\ got = [t \in Tasks |-> None]
    /\ beforeShutdown = [t \in Tasks |-> FALSE]
    /\ beforeRun = [t \in Tasks |-> FALSE]

Created == {t \in Tasks : kind[t] # "none"}
\* The next Task to be allocated (Arc::new(Task::new(..))).
FreshTask == Cardinality(Created) + 1
HasFresh == Cardinality(Created) < MaxTasks


\* Task ids the model keeps free for the children that "parent" futures
\* already spawned will create.
Reserved ==
    Cardinality({t \in Created : kind[t] = "parent" /\ fpc[t] \in {"start", "push"}})

\* Task::new(wrapped_future, queue) followed by global_queue.push(task),
\* for the Task t boxing a future of kind k.
TaskCreated(t, k, tg, v) ==
    /\ kind' = [kind EXCEPT ![t] = k]
    /\ target' = [target EXCEPT ![t] = tg]
    /\ val' = [val EXCEPT ![t] = v]
    /\ future_slot' = [future_slot EXCEPT ![t] = "Some"]
    /\ queue' = Append(queue, t)
    /\ beforeShutdown' = [beforeShutdown EXCEPT ![t] = ~is_shutdown]
    /\ beforeRun' = [beforeRun EXCEPT ![t] = ~started]

\* ------------------------------------------------------ Spawner::spawn
\* `if self.is_shutdown.load(SeqCst)`: the call is refused.
SpawnRefused_Never == FALSE
SpawnRefused == is_shutdown

\* The caller's spawn, up to the shutdown check: Err(RuntimeStopped), or on
\* to building the Task.
SpawnCheck ==
    /\ spc = "idle"
    /\ is_shutdown \/ Cardinality(Created) + Reserved < MaxTasks
    /\ IF SpawnRefused
       THEN /\ spawnRet' = "Err"
            /\ UNCHANGED spc
       ELSE /\ spc' = "push"
            /\ spawnRet' = "none"
    /\ UNCHANGED <<queue, is_shutdown, started, taskVars, joinVars, workerVars,
                   waitReturned, histVars>>
    /\ UNCHANGED <<cancelVars, ownerVars, timerVars>>

\* The caller's spawn from JoinHandle::new to Ok(handle), for a future of
\* kind k; a "join" future owns the JoinHandle of task tg, moved into it.
SpawnPush(k, tg, v) ==
    /\ spc = "push"
    /\ k = "parent" => Cardinality(Created) + Reserved + 2 <= MaxTasks
    /\ IF k = "join" THEN tg \in Created /\ handle[tg] = "caller" ELSE tg = NoTask
    /\ IF k = "value" THEN v \in Values ELSE v = Unit
    /\ TaskCreated(FreshTask, k, tg, v)
    /\ handle' = [t \in Tasks |->
                    IF t = FreshTask THEN "caller"
                    ELSE IF t = tg THEN "moved" ELSE handle[t]]
    /\ spc' = "idle"
    /\ spawnRet' = "Ok"
    /\ UNCHANGED <<is_shutdown, started, flock, fpc, result, rlock, jwaker,
                   workerVars, waitReturned, polls, bodyRuns, panicked, completions,
                   jwakes, got>>
    /\ UNCHANGED <<cancelVars, ownerVars, timerVars>>

\* ------------------------------------------------------------- Runtime
\* Runtime::run(NumWorkers): the worker threads start in run_worker_loop.
\* shutdown(self) consumes the Runtime, so run precedes it.
Run ==
    /\ ~started
    /\ ~is_shutdown
    /\ started' = TRUE
    /\ wpc' = [w \in Workers |-> "steal"]
    /\ UNCHANGED <<queue, is_shutdown, taskVars, joinVars, cur, callerVars, histVars>>
    /\ UNCHANGED <<cancelVars, ownerVars, timerVars>>

\* A shutdown that also drops what is queued (as dropping a channel would).
Shutdown_DropsQueue ==
    /\ ~is_shutdown
    /\ is_shutdown' = TRUE
    /\ queue' = <<>>
    /\ UNCHANGED <<started, taskVars, joinVars, workerVars, callerVars, histVars>>
    /\ UNCHANGED <<cancelVars, ownerVars, timerVars>>

\* Runtime::shutdown(self): is_shutdown.store(true, SeqCst).  It consumes the
\* Runtime, so it is called once.
Shutdown ==
    /\ ~is_shutdown
    /\ is_shutdown' = TRUE
    /\ UNCHANGED <<queue, started, taskVars, joinVars, workerVars, callerVars,
                   histVars>>
    /\ UNCHANGED <<cancelVars, ownerVars, timerVars>>

\* The worker thread w has left run_worker_loop.
Ended(w) == wpc[w] = "ended"
AllEnded == \A w \in Workers : Ended(w)

\* RuntimeHandle::wait: `for handle in worker_handles { let _ = handle.join(); }`.
\* Entering wait touches no shared state and every join blocks until its
\* thread has ended, so the call is modelled by its return.
Wait ==
    /\ started
    /\ ~waitReturned
    /\ AllEnded
    /\ waitReturned' = TRUE
    /\ UNCHANGED <<queue, is_shutdown, started, taskVars, joinVars, workerVars,
                   spc, spawnRet, histVars>>
    /\ UNCHANGED <<cancelVars, ownerVars, timerVars>>

\* ------------------------------------------------------ run_worker_loop
\* A loop `while !is_shutdown.load() { .. }`: the worker leaves as soon as the
\* flag is set, whatever the queue holds.
Steal_StopsOnShutdown(w) ==
    /\ wpc[w] = "steal"
    /\ IF is_shutdown
       THEN /\ wpc' = [wpc EXCEPT ![w] = "ended"]
            /\ UNCHANGED <<cur, queue>>
       ELSE IF queue # <<>>
       THEN /\ cur' = [cur EXCEPT ![w] = Head(queue)]
            /\ queue' = Tail(queue)
            /\ wpc' = [wpc EXCEPT ![w] = "execute"]
       ELSE /\ wpc' = [wpc EXCEPT ![w] = "empty"]
            /\ UNCHANGED <<cur, queue>>
    /\ UNCHANGED <<is_shutdown, started, taskVars, joinVars, callerVars, histVars>>
    /\ UNCHANGED <<cancelVars, ownerVars, timerVars>>

\* global_queue.steal(): Success(task) or Empty.  Steal::Retry leaves every
\* variable as it was and loops (a stuttering step).
Steal(w) ==
    /\ wpc[w] = "steal"
    /\ IF queue # <<>>
       THEN /\ cur' = [cur EXCEPT ![w] = Head(queue)]
            /\ queue' = Tail(queue)
            /\ wpc' = [wpc EXCEPT ![w] = "execute"]
       ELSE /\ wpc' = [wpc EXCEPT ![w] = "empty"]
            /\ UNCHANGED <<cur, queue>>
    /\ UNCHANGED <<is_shutdown, started, taskVars, joinVars, callerVars, histVars>>
    /\ UNCHANGED <<cancelVars, ownerVars, timerVars>>

\* The Empty arm: `if is_shutdown.load(SeqCst) { break } thread::yield_now()`.
ShutdownObserved_Never == FALSE
ShutdownObserved == is_shutdown

CheckShutdown(w) ==
    /\ wpc[w] = "empty"
    /\ wpc' = [wpc EXCEPT ![w] = IF ShutdownObserved THEN "ended" ELSE "steal"]
    /\ UNCHANGED <<queue, is_shutdown, started, taskVars, joinVars, cur,
                   callerVars, histVars>>
    /\ UNCHANGED <<cancelVars, ownerVars, timerVars>>


\* ---------------------------------------------------------- execute_task
\* `task.future_slot().lock()`, then `let Some(future) = .. else { return }`:
\* an empty slot is a stale wakeup, the guard is dropped at once; otherwise
\* the worker goes on to poll the future with the lock held.
\* execute_task with a slot that any number of workers can enter.
ExecuteLock_NoExclusion(w) ==
    /\ wpc[w] \in {"execute", "blocked"}
    /\ IF future_slot[cur[w]] = "Some"
       THEN /\ flock' = [flock EXCEPT ![cur[w]] = w]
            /\ wpc' = [wpc EXCEPT ![w] = "poll"]
            /\ polls' = [polls EXCEPT ![cur[w]] = @ + 1]
       ELSE /\ wpc' = [wpc EXCEPT ![w] = "steal"]
            /\ UNCHANGED <<flock, polls>>
    /\ UNCHANGED <<queue, is_shutdown, started, kind, target, val, future_slot,
                   fpc, joinVars, cur, callerVars, bodyRuns, panicked,
                   completions, jwakes, got, beforeShutdown, beforeRun>>
    /\ UNCHANGED <<cancelVars, ownerVars, timerVars>>

\* execute_task without the test of the slot: whatever it holds is polled.
ExecuteLock_PollsEmpty(w) ==
    /\ wpc[w] \in {"execute", "blocked"}
    /\ flock[cur[w]] = NoWorker
    /\ flock' = [flock EXCEPT ![cur[w]] = w]
    /\ wpc' = [wpc EXCEPT ![w] = "poll"]
    /\ polls' = [polls EXCEPT ![cur[w]] = @ + 1]
    /\ UNCHANGED <<queue, is_shutdown, started, kind, target, val, future_slot,
                   fpc, joinVars, cur, callerVars, bodyRuns, panicked,
                   completions, jwakes, got, beforeShutdown, beforeRun>>
    /\ UNCHANGED <<cancelVars, ownerVars, timerVars>>

\* execute_task: the lock of the slot (free, or released to a parked
\* worker), then the `let Some(future) = .. else { return }`.
ExecuteLock(w) ==
    /\ wpc[w] \in {"execute", "blocked"}
    /\ flock[cur[w]] = NoWorker
    /\ IF future_slot[cur[w]] = "Some"
       THEN /\ flock' = [flock EXCEPT ![cur[w]] = w]
            /\ wpc' = [wpc EXCEPT ![w] = "poll"]
            /\ polls' = [polls EXCEPT ![cur[w]] = @ + 1]
       ELSE /\ wpc' = [wpc EXCEPT ![w] = "steal"]
            /\ UNCHANGED <<flock, polls>>
    /\ UNCHANGED <<queue, is_shutdown, started, kind, target, val, future_slot,
                   fpc, joinVars, cur, callerVars, bodyRuns, panicked,
                   completions, jwakes, got, beforeShutdown, beforeRun>>
    /\ UNCHANGED <<cancelVars, ownerVars, timerVars>>

\* A try-lock in place of the lock: the worker that finds the mutex held
\* gives the Task up.
ExecuteWait_Skip(w) ==
    /\ wpc[w] = "execute"
    /\ flock[cur[w]] # NoWorker
    /\ wpc' = [wpc EXCEPT ![w] = "steal"]
    /\ UNCHANGED <<queue, is_shutdown, started, taskVars, joinVars, cur,
                   callerVars, histVars>>
    /\ UNCHANGED <<cancelVars, ownerVars, timerVars>>

\* `task.future_slot().lock()` finds the mutex held by the worker that is
\* polling the Task: the thread parks until the mutex is released.
ExecuteWait(w) ==
    /\ wpc[w] = "execute"
    /\ flock[cur[w]] # NoWorker
    /\ wpc' = [wpc EXCEPT ![w] = "blocked"]
    /\ UNCHANGED <<queue, is_shutdown, started, taskVars, joinVars, cur,
                   callerVars, histVars>>
    /\ UNCHANGED <<cancelVars, ownerVars, timerVars>>

\* w is inside future.poll of task t, the wrapped future standing at pc.
Polling(w, t, pc) == wpc[w] = "poll" /\ cur[w] = t /\ fpc[t] = pc

\* A Pending arm that pushes the Task back onto the queue.
PollPending_Requeue(w) ==
    /\ Polling(w, cur[w], "pending")
    /\ queue' = Append(queue, cur[w])
    /\ flock' = [flock EXCEPT ![cur[w]] = NoWorker]
    /\ fpc' = [fpc EXCEPT ![cur[w]] = "await"]
    /\ wpc' = [wpc EXCEPT ![w] = "steal"]
    /\ UNCHANGED <<is_shutdown, started, kind, target, val, future_slot,
                   joinVars, cur, callerVars, histVars>>
    /\ UNCHANGED <<cancelVars, ownerVars, timerVars>>

\* Ok(Poll::Pending): nothing is re-enqueued, the guard is dropped.
PollPending(w) ==
    /\ Polling(w, cur[w], "pending")
    /\ flock' = [flock EXCEPT ![cur[w]] = NoWorker]
    /\ fpc' = [fpc EXCEPT ![cur[w]] = "await"]
    /\ wpc' = [wpc EXCEPT ![w] = "steal"]
    /\ UNCHANGED <<queue, is_shutdown, started, kind, target, val, future_slot,
                   joinVars, cur, callerVars, histVars>>
    /\ UNCHANGED <<cancelVars, ownerVars, timerVars>>

\* Where the worker goes after the Err(_) arm of execute_task: execute_task
\* returns and run_worker_loop loops.
AfterPanic_Unwinds == "ended"
AfterPanic == "steal"

\* The future panics in its first poll step; catch_unwind yields Err(_):
\* `*future_slot = None; eprintln!(..)`.  The wrapped future is dropped and its
\* JoinNotifier with it, which has no Drop impl: the JoinState is left alone.
PollPanic(w) ==
    /\ Polling(w, cur[w], "start")
    /\ kind[cur[w]] = "panic"
    /\ future_slot' = [future_slot EXCEPT ![cur[w]] = "None"]
    /\ flock' = [flock EXCEPT ![cur[w]] = NoWorker]
    /\ fpc' = [fpc EXCEPT ![cur[w]] = "panicked"]
    /\ panicked' = [panicked EXCEPT ![cur[w]] = TRUE]
    /\ wpc' = [wpc EXCEPT ![w] = AfterPanic]
    /\ UNCHANGED <<queue, is_shutdown, started, kind, target, val, joinVars, cur,
                   callerVars, polls, bodyRuns, completions, jwakes, got,
                   beforeShutdown, beforeRun>>
    /\ UNCHANGED <<cancelVars, ownerVars, timerVars>>

\* ------------------------------------------------- the spawned futures
\* `async { counter.fetch_add(1); v }`: the body runs, `future.await` in the
\* wrapper yields its value, and the wrapper goes on to notifier.complete.
PollBody(w) ==
    /\ Polling(w, cur[w], "start")
    /\ kind[cur[w]] = "value"
    /\ bodyRuns' = [bodyRuns EXCEPT ![cur[w]] = @ + 1]
    /\ fpc' = [fpc EXCEPT ![cur[w]] = "complete"]
    /\ UNCHANGED <<queue, is_shutdown, started, kind, target, val, future_slot,
                   flock, joinVars, workerVars, callerVars, polls, panicked,
                   completions, jwakes, got, beforeShutdown, beforeRun>>
    /\ UNCHANGED <<cancelVars, ownerVars, timerVars>>

\* The "parent" future: its counter increment, then the nested
\* Spawner::spawn up to the shutdown check (an Err is dropped by `let _ =`).
ParentBody(w) ==
    /\ Polling(w, cur[w], "start")
    /\ kind[cur[w]] = "parent"
    /\ bodyRuns' = [bodyRuns EXCEPT ![cur[w]] = @ + 1]
    /\ fpc' = [fpc EXCEPT ![cur[w]] = IF SpawnRefused THEN "complete" ELSE "push"]
    /\ UNCHANGED <<queue, is_shutdown, started, kind, target, val, future_slot,
                   flock, joinVars, workerVars, callerVars, polls, panicked,
                   completions, jwakes, got, beforeShutdown, beforeRun>>
    /\ UNCHANGED <<cancelVars, ownerVars, timerVars>>

\* The nested spawn from JoinHandle::new to Ok(handle); the child's handle is
\* dropped.
ParentPush(w) ==
    /\ Polling(w, cur[w], "push")
    /\ TaskCreated(FreshTask, "value", NoTask, Unit)
    /\ handle' = [handle EXCEPT ![FreshTask] = "dropped"]
    /\ fpc' = [fpc EXCEPT ![cur[w]] = "complete"]
    /\ UNCHANGED <<is_shutdown, started, flock, result, rlock, jwaker,
                   workerVars, callerVars, polls, bodyRuns, panicked, completions,
                   jwakes, got>>
    /\ UNCHANGED <<cancelVars, ownerVars, timerVars>>


\* ------------------------------------------------ JoinNotifier::complete
\* `*self.state.result.lock() = Some(result)`: one critical section of the
\* result mutex.  The wrapper passes Ok(value of the future).
CompleteInstall(w) ==
    /\ Polling(w, cur[w], "complete")
    /\ rlock[cur[w]] = NoWorker
    /\ result' = [result EXCEPT ![cur[w]] = Ok(val[cur[w]])]
    /\ completions' = [completions EXCEPT ![cur[w]] =
                          IF result[cur[w]] = None THEN @ + 1 ELSE @]
    /\ fpc' = [fpc EXCEPT ![cur[w]] = "wake"]
    /\ UNCHANGED <<queue, is_shutdown, started, kind, target, val, future_slot,
                   flock, rlock, jwaker, handle, workerVars, callerVars, polls,
                   bodyRuns, panicked, jwakes, got, beforeShutdown, beforeRun>>
    /\ UNCHANGED <<cancelVars, ownerVars, timerVars>>

\* A notifier that is not one-shot: the waker is invoked through a reference
\* and left in its slot, and the wrapper runs complete once more.
CompleteWake_NotOneShot(w) ==
    /\ Polling(w, cur[w], "wake")
    /\ IF jwaker[cur[w]] # NoTask
       THEN /\ queue' = Append(queue, jwaker[cur[w]])
            /\ jwakes' = [jwakes EXCEPT ![cur[w]] = @ + 1]
       ELSE UNCHANGED <<queue, jwakes>>
    /\ fpc' = [fpc EXCEPT ![cur[w]] = "complete"]
    /\ UNCHANGED <<is_shutdown, started, kind, target, val, future_slot, flock,
                   result, rlock, jwaker, handle, workerVars, callerVars, polls,
                   bodyRuns, panicked, completions, got, beforeShutdown,
                   beforeRun>>
    /\ UNCHANGED <<cancelVars, ownerVars, timerVars>>

\* `if let Some(waker) = self.state.waker.lock().take() { waker.wake() }`:
\* Task::wake_by_ref pushes the stored waker's Task onto the queue.  With it
\* the wrapped future returns Ready, and execute_task's Ok(Poll::Ready(()))
\* arm runs: `*future_slot = None`, the guard is dropped.  (Nothing another
\* thread can see separates the push from the release.)
CompleteWake(w) ==
    /\ Polling(w, cur[w], "wake")
    /\ IF jwaker[cur[w]] # NoTask
       THEN /\ queue' = Append(queue, jwaker[cur[w]])
            /\ jwaker' = [jwaker EXCEPT ![cur[w]] = NoTask]
            /\ jwakes' = [jwakes EXCEPT ![cur[w]] = @ + 1]
       ELSE UNCHANGED <<queue, jwaker, jwakes>>
    /\ fpc' = [fpc EXCEPT ![cur[w]] = "done"]
    /\ future_slot' = [future_slot EXCEPT ![cur[w]] = "None"]
    /\ flock' = [flock EXCEPT ![cur[w]] = NoWorker]
    /\ wpc' = [wpc EXCEPT ![w] = "steal"]
    /\ UNCHANGED <<is_shutdown, started, kind, target, val, result, rlock,
                   handle, cur, callerVars, polls, bodyRuns, panicked,
                   completions, got, beforeShutdown, beforeRun>>
    /\ UNCHANGED <<cancelVars, ownerVars, timerVars>>

\* --------------------------------------------------- JoinHandle::poll
\* A poll that drops the result guard before it stores the waker.
JoinPollCheck_Unlocked(w) ==
    /\ wpc[w] = "poll"
    /\ kind[cur[w]] = "join"
    /\ fpc[cur[w]] \in {"start", "await"}
    /\ rlock[target[cur[w]]] = NoWorker
    /\ IF result[target[cur[w]]] # None
       THEN /\ got' = [got EXCEPT ![cur[w]] = result[target[cur[w]]]]
            /\ result' = [result EXCEPT ![target[cur[w]]] = None]
            /\ fpc' = [fpc EXCEPT ![cur[w]] = "complete"]
       ELSE /\ fpc' = [fpc EXCEPT ![cur[w]] = "store"]
            /\ UNCHANGED <<got, result>>
    /\ UNCHANGED <<queue, is_shutdown, started, kind, target, val, future_slot,
                   flock, rlock, jwaker, handle, workerVars, callerVars, polls,
                   bodyRuns, panicked, completions, jwakes, beforeShutdown,
                   beforeRun>>
    /\ UNCHANGED <<cancelVars, ownerVars, timerVars>>

\* The "join" future polls the JoinHandle it owns (first poll, or a poll after
\* a wakeup): `let mut result_guard = self.state.result.lock()`, then
\* `if let Some(result) = result_guard.take() { return Ready(result) }`.
\* Ready drops the guard; otherwise the guard is held on to the waker store.
JoinPollCheck(w) ==
    /\ wpc[w] = "poll"
    /\ kind[cur[w]] = "join"
    /\ fpc[cur[w]] \in {"start", "await"}
    /\ rlock[target[cur[w]]] = NoWorker
    /\ IF result[target[cur[w]]] # None
       THEN /\ got' = [got EXCEPT ![cur[w]] = result[target[cur[w]]]]
            /\ result' = [result EXCEPT ![target[cur[w]]] = None]
            /\ fpc' = [fpc EXCEPT ![cur[w]] = "complete"]
            /\ UNCHANGED rlock
       ELSE /\ rlock' = [rlock EXCEPT ![target[cur[w]]] = w]
            /\ fpc' = [fpc EXCEPT ![cur[w]] = "store"]
            /\ UNCHANGED <<got, result>>
    /\ UNCHANGED <<queue, is_shutdown, started, kind, target, val, future_slot,
                   flock, jwaker, handle, workerVars, callerVars, polls,
                   bodyRuns, panicked, completions, jwakes, beforeShutdown,
                   beforeRun>>
    /\ UNCHANGED <<cancelVars, ownerVars, timerVars>>

\* A poll that returns Pending with the result guard never dropped.
JoinPollStore_KeepsGuard(w) ==
    /\ Polling(w, cur[w], "store")
    /\ jwaker' = [jwaker EXCEPT ![target[cur[w]]] = cur[w]]
    /\ fpc' = [fpc EXCEPT ![cur[w]] = "pending"]
    /\ UNCHANGED <<queue, is_shutdown, started, kind, target, val, future_slot,
                   flock, result, rlock, handle, workerVars, callerVars, histVars>>
    /\ UNCHANGED <<cancelVars, ownerVars, timerVars>>

\* `*self.state.waker.lock() = Some(cx.waker().clone()); Poll::Pending`: the
\* waker of the polling Task overwrites the slot, the result guard is dropped.
JoinPollStore(w) ==
    /\ Polling(w, cur[w], "store")
    /\ jwaker' = [jwaker EXCEPT ![target[cur[w]]] = cur[w]]
    /\ rlock' = [rlock EXCEPT ![target[cur[w]]] = NoWorker]
    /\ fpc' = [fpc EXCEPT ![cur[w]] = "pending"]
    /\ UNCHANGED <<queue, is_shutdown, started, kind, target, val, future_slot,
                   flock, result, handle, workerVars, callerVars, histVars>>
    /\ UNCHANGED <<cancelVars, ownerVars, timerVars>>

\* ============================================== the timer
\* No is_finished() call yet.
OwnerInit ==
    /\ finObs = [t \in Tasks |-> "none"]
    /\ wakeups = [t \in Tasks |-> 0]
    /\ jstate = [result |-> None, waker |-> NoWaker, guard |-> FALSE]
    /\ jpoll = [pc |-> "idle", cx |-> NoWaker, out |-> "none"]
    /\ jcomp = "idle"
    /\ jhist = [stored |-> {}, invoked |-> [o \in Wakers |-> 0]]

\* The clock at 0, no SleepFuture yet; Reactor::new and the reactor thread
\* spawned, about to take the registry lock at the top of run.
TimerInit ==
    /\ now = 0
    /\ slpc = [s \in Sleepers |-> "none"]
    /\ deadline = [s \in Sleepers |-> NoTime]
    /\ is_registered = [s \in Sleepers |-> FALSE]
    /\ t0 = [s \in Sleepers |-> NoTime]
    /\ dur = [s \in Sleepers |-> 0]
    /\ readyAt = [s \in Sleepers |-> NoTime]
    /\ regAt = [s \in Sleepers |-> NoTime]
    /\ timers = [d \in Instants |-> <<>>]
    /\ registry_lock = "free"
    /\ notified = FALSE
    /\ rpc = "lock"
    /\ rdeadline = NoTime
    /\ rwakers = <<>>
    /\ fired = <<>>
    /\ popNow = NoTime
    /\ popFrom = [d \in Instants |-> <<>>]

\* ---------------------------------------------------------- TimerRegistry
\* register: `self.timers.entry(deadline).or_default().push(waker)`.
Register(reg, d, w) == [reg EXCEPT ![d] = Append(@, w)]

\* The keys of the BTreeMap.
Keys(reg) == {d \in Instants : reg[d] # <<>>}

\* next_deadline: `self.timers.keys().next().copied()`, the smallest key.
NextDeadline(reg) ==
    IF Keys(reg) = {} THEN NoTime
    ELSE CHOOSE d \in Keys(reg) : \A e \in Keys(reg) : d <= e

\* BTreeMap::split_off(&key): what is returned (the keys >= key) and what
\* stays in the map (the keys < key).
SplitOff(reg, key) == [d \in Instants |-> IF d >= key THEN reg[d] ELSE <<>>]
SplitKept(reg, key) == [d \in Instants |-> IF d < key THEN reg[d] ELSE <<>>]

\* into_values().flatten().collect(): the Vecs in ascending key order, from
\* key d on.
RECURSIVE Flatten(_, _)
Flatten(reg, d) ==
    IF d \notin Instants THEN <<>> ELSE reg[d] \o Flatten(reg, d + 1)

\* The wakers in descending key order.
ReadyOrder_Descending(reg) ==
    LET f == Flatten(reg, 0) IN [i \in 1..Len(f) |-> f[Len(f) + 1 - i]]
\* `ready.into_values().flatten().collect()`.
ReadyOrder(reg) == Flatten(reg, 0)

\* A split at `now` itself.
SplitKey_AtNow(n) == n
\* `now + Duration::from_nanos(1)`: the clock unit of the model is the
\* resolution of Instant.
SplitKey(n) == n + 1

\* pop_ready_wakers leaving the map as it was.
PopPending_Kept(reg, n) == reg
\* pop_ready_wakers: `pending`, which becomes self.timers.
PopPending(reg, n) == SplitOff(reg, SplitKey(n))
\* pop_ready_wakers: the Vec<Waker> it returns.
PopReady(reg, n) == ReadyOrder(SplitKept(reg, SplitKey(n)))

\* ------------------------------------------------------------ the clock
\* Time passes.
Tick ==
    /\ now < MaxTime
    /\ now' = now + 1
    /\ UNCHANGED <<sleepVars, reactorVars>>
    /\ UNCHANGED <<execVars, cancelVars, ownerVars>>

\* ----------------------------------------------------------- SleepFuture
\* sleep(d): SleepFuture { deadline: Instant::now() + duration, false }.
Sleep(s, d) ==
    /\ slpc[s] = "none"
    /\ slpc' = [slpc EXCEPT ![s] = "created"]
    /\ deadline' = [deadline EXCEPT ![s] = now + d]
    /\ t0' = [t0 EXCEPT ![s] = now]
    /\ dur' = [dur EXCEPT ![s] = d]
    /\ UNCHANGED <<now, is_registered, readyAt, regAt, reactorVars>>
    /\ UNCHANGED <<execVars, cancelVars, ownerVars>>

\* A poll that takes the future for done once it has registered.
IsReady_WhenRegistered(s) == is_registered[s]
\* is_ready: `Instant::now() >= self.deadline`.
IsReady(s) == now >= deadline[s]

\* SleepFuture::poll up to its call of register_timer.  The future is polled
\* when it is new, after its waker was invoked, and at any other time (a
\* spurious poll); a registered future that is not ready returns Pending.
SleepPoll(s) ==
    /\ slpc[s] \in {"created", "pending"}
    /\ IF IsReady(s)
       THEN /\ slpc' = [slpc EXCEPT ![s] = "ready"]
            /\ readyAt' = [readyAt EXCEPT ![s] = now]
       ELSE /\ slpc' = [slpc EXCEPT ![s] =
                           IF is_registered[s] THEN "pending" ELSE "register"]
            /\ UNCHANGED readyAt
    /\ UNCHANGED <<now, deadline, is_registered, t0, dur, regAt, reactorVars>>
    /\ UNCHANGED <<execVars, cancelVars, ownerVars>>

\* notify_one with no waiter is lost.
NotifyOne_Lost == notified
\* `self.condvar.notify_one()`: it reaches the reactor if the reactor waits.
NotifyOne == IF rpc \in {"wait", "wait_for"} THEN TRUE ELSE notified

\* ensure_registered that leaves is_registered as it was.
RegisterTimer_Unmarked(s) ==
    /\ slpc[s] = "register"
    /\ registry_lock = "free"
    /\ timers' = Register(timers, deadline[s], s)
    /\ notified' = NotifyOne
    /\ UNCHANGED is_registered
    /\ regAt' = [regAt EXCEPT ![s] = now]
    /\ slpc' = [slpc EXCEPT ![s] = "pending"]
    /\ UNCHANGED <<now, deadline, t0, dur, readyAt, registry_lock, rpc,
                   rdeadline, rwakers, fired, popNow, popFrom>>
    /\ UNCHANGED <<execVars, cancelVars, ownerVars>>

\* ensure_registered: Reactor::register_timer (lock, register, notify_one,
\* unlock), `self.is_registered = true`, and poll returns Pending.
RegisterTimer(s) ==
    /\ slpc[s] = "register"
    /\ registry_lock = "free"
    /\ timers' = Register(timers, deadline[s], s)
    /\ notified' = NotifyOne
    /\ is_registered' = [is_registered EXCEPT ![s] = TRUE]
    /\ regAt' = [regAt EXCEPT ![s] = now]
    /\ slpc' = [slpc EXCEPT ![s] = "pending"]
    /\ UNCHANGED <<now, deadline, t0, dur, readyAt, registry_lock, rpc,
                   rdeadline, rwakers, fired, popNow, popFrom>>
    /\ UNCHANGED <<execVars, cancelVars, ownerVars>>

\* ---------------------------------------------------------------- Reactor
\* run: `let mut registry = self.registry.lock()`.
ReactorLock ==
    /\ rpc = "lock"
    /\ registry_lock = "free"
    /\ registry_lock' = "reactor"
    /\ rpc' = "loop"
    /\ UNCHANGED <<now, sleepVars, timers, notified, rdeadline, rwakers, fired,
                   popNow, popFrom>>
    /\ UNCHANGED <<execVars, cancelVars, ownerVars>>

\* process_ready_timers keeping the guard while it dispatches.
LockAfterPop_Held == "reactor"
\* process_ready_timers: `drop(registry)` after the pop.
LockAfterPop == "free"

\* `Some(deadline) if now >= deadline`: process_ready_timers pops the ready
\* wakers with the `now` of this pass and drops the guard.
ReactorPop ==
    /\ rpc = "loop"
    /\ NextDeadline(timers) # NoTime
    /\ now >= NextDeadline(timers)
    /\ rwakers' = PopReady(timers, now)
    /\ timers' = PopPending(timers, now)
    /\ registry_lock' = LockAfterPop
    /\ rpc' = "dispatch"
    /\ popNow' = now
    /\ popFrom' = timers
    /\ UNCHANGED <<now, sleepVars, notified, rdeadline, fired>>
    /\ UNCHANGED <<execVars, cancelVars, ownerVars>>

\* `for waker in wakers { waker.wake() }`, one waker.
ReactorDispatch ==
    /\ rpc = "dispatch"
    /\ rwakers # <<>>
    /\ fired' = Append(fired, Head(rwakers))
    /\ rwakers' = Tail(rwakers)
    /\ UNCHANGED <<now, sleepVars, timers, registry_lock, notified, rpc,
                   rdeadline, popNow, popFrom>>
    /\ UNCHANGED <<execVars, cancelVars, ownerVars>>

\* The loop is over: `self.registry.lock()`, and back to the top of run's loop.
ReactorRelock ==
    /\ rpc = "dispatch"
    /\ rwakers = <<>>
    /\ registry_lock = "free"
    /\ registry_lock' = "reactor"
    /\ rpc' = "loop"
    /\ UNCHANGED <<now, sleepVars, timers, notified, rdeadline, rwakers, fired,
                   popNow, popFrom>>
    /\ UNCHANGED <<execVars, cancelVars, ownerVars>>

\* `Some(deadline)` with now < deadline: on to park_until(registry, deadline).
ReactorNotYet ==
    /\ rpc = "loop"
    /\ NextDeadline(timers) # NoTime
    /\ now < NextDeadline(timers)
    /\ rdeadline' = NextDeadline(timers)
    /\ rpc' = "park"
    /\ UNCHANGED <<now, sleepVars, timers, registry_lock, notified, rwakers,
                   fired, popNow, popFrom>>
    /\ UNCHANGED <<execVars, cancelVars, ownerVars>>

\* park_until: a second Instant::now(); `if deadline > now` the reactor waits
\* on the condvar for deadline - now, which releases the mutex; otherwise it
\* returns to the loop at once.
ParkUntil ==
    /\ rpc = "park"
    /\ IF rdeadline > now
       THEN /\ rpc' = "wait_for"
            /\ registry_lock' = "free"
       ELSE /\ rpc' = "loop"
            /\ UNCHANGED registry_lock
    /\ UNCHANGED <<now, sleepVars, timers, notified, rdeadline, rwakers, fired,
                   popNow, popFrom>>
    /\ UNCHANGED <<execVars, cancelVars, ownerVars>>

\* `None`: park_indefinitely waits on the condvar, which releases the mutex.
ParkIndefinitely ==
    /\ rpc = "loop"
    /\ NextDeadline(timers) = NoTime
    /\ rpc' = "wait"
    /\ registry_lock' = "free"
    /\ UNCHANGED <<now, sleepVars, timers, notified, rdeadline, rwakers, fired,
                   popNow, popFrom>>
    /\ UNCHANGED <<execVars, cancelVars, ownerVars>>

\* The wait ends, on a notification or (wait_for) when the timeout has run
\* out, and the mutex is taken again.  A parking_lot Condvar has no spurious
\* wakeups.
ReactorWake ==
    /\ rpc \in {"wait", "wait_for"}
    /\ notified \/ (rpc = "wait_for" /\ now >= rdeadline)
    /\ registry_lock = "free"
    /\ registry_lock' = "reactor"
    /\ notified' = FALSE
    /\ rpc' = "loop"
    /\ UNCHANGED <<now, sleepVars, timers, rdeadline, rwakers, fired, popNow,
                   popFrom>>
    /\ UNCHANGED <<execVars, cancelVars, ownerVars>>

ReactorStep ==
    \/ ReactorLock
    \/ ReactorPop
    \/ ReactorDispatch
    \/ ReactorRelock
    \/ ReactorNotYet
    \/ ParkUntil
    \/ ParkIndefinitely
    \/ ReactorWake

TimerNext ==
    \/ Tick
    \/ \E s \in Sleepers, d \in Durations : Sleep(s, d)
    \/ \E s \in Sleepers : SleepPoll(s)
    \/ \E s \in Sleepers : RegisterTimer(s)
    \/ ReactorStep

\* ============================================== CancellationToken
\* CancellationToken::new(): token 1 on a fresh, uncancelled state.
CancelInit ==
    /\ tinner = [k \in Tokens |-> IF k = 1 THEN 1 ELSE NoState]
    /\ tvia = [k \in Tokens |-> IF k = 1 THEN "new" ELSE "none"]
    /\ tparent = [k \in Tokens |-> NoToken]
    /\ troot = [k \in Tokens |-> IF k = 1 THEN 1 ELSE NoToken]
    /\ is_cancelled = [s \in States |-> FALSE]
    /\ cwakers = [s \in States |-> <<>>]
    /\ cpc = [c \in Cancellers |-> "idle"]
    /\ ctok = [c \in Cancellers |-> NoToken]
    /\ cdrain = [c \in Cancellers |-> <<>>]
    /\ cancelReturned = [k \in Tokens |-> FALSE]
    /\ obs = [tok |-> NoToken, val |-> FALSE]
    /\ seenTrue = [s \in States |-> NoToken]
    /\ pfut = [p \in Pollers |-> NoState]
    /\ ppc = [p \in Pollers |-> "none"]
    /\ pwake = [p \in Pollers |-> FALSE]
    /\ woken = [p \in Pollers |-> 0]

Init == ExecInit /\ CancelInit /\ OwnerInit /\ TimerInit

Live == {k \in Tokens : tvia[k] # "none"}
FreshToken == Cardinality(Live) + 1
\* CancellationState allocations so far (one per new()).
Allocated == Cardinality({k \in Tokens : tvia[k] = "new"})

\* The token k made from token k0 (NoToken: by new()) pointing to state s.
TokenMade(k, how, k0, s) ==
    /\ tinner' = [tinner EXCEPT ![k] = s]
    /\ tvia' = [tvia EXCEPT ![k] = how]
    /\ tparent' = [tparent EXCEPT ![k] = k0]
    /\ troot' = [troot EXCEPT ![k] = IF k0 = NoToken THEN k ELSE troot[k0]]
    /\ UNCHANGED <<is_cancelled, cwakers, cpc, ctok, cdrain, cancelReturned, obs,
                   seenTrue, pfut, ppc, pwake, woken>>
    /\ UNCHANGED <<execVars, ownerVars, timerVars>>

\* CancellationToken::new(): Arc::new(CancellationState { false, Vec::new() }).
TokenNew ==
    /\ FreshToken \in Tokens
    /\ Allocated < NumStates
    /\ TokenMade(FreshToken, "new", NoToken, Allocated + 1)

\* Clone for CancellationToken: `inner: self.inner.clone()`.
TokenClone(k0) ==
    /\ k0 \in Live
    /\ FreshToken \in Tokens
    /\ TokenMade(FreshToken, "clone", k0, tinner[k0])

\* A child with a CancellationState of its own.
ChildInner_Fresh(k0) ==
    IF Allocated < NumStates THEN Allocated + 1 ELSE tinner[k0]

\* child_token: `inner: self.inner.clone()`, the parent's state.
ChildInner(k0) == tinner[k0]

ChildToken(k0) ==
    /\ k0 \in Live
    /\ FreshToken \in Tokens
    /\ TokenMade(FreshToken, "child", k0, ChildInner(k0))

\* What cancel() stores into the flag of state s.
FlagAfterCancel_Toggle(s) == ~is_cancelled[s]
\* `self.inner.is_cancelled.store(true, SeqCst)`.
FlagAfterCancel(s) == TRUE

\* cancel() on token k, by thread c: the store of the flag.
CancelStore(c, k) ==
    /\ cpc[c] = "idle"
    /\ k \in Live
    /\ is_cancelled' = [is_cancelled EXCEPT ![tinner[k]] = FlagAfterCancel(tinner[k])]
    /\ cpc' = [cpc EXCEPT ![c] = "flagged"]
    /\ ctok' = [ctok EXCEPT ![c] = k]
    /\ UNCHANGED <<tokenVars, cwakers, cdrain, cancelReturned, obs, seenTrue,
                   pfut, ppc, pwake, woken>>
    /\ UNCHANGED <<execVars, ownerVars, timerVars>>

\* A cancel() that clones the collection and leaves it in place.
CancelTake_Copy(c) ==
    /\ cpc[c] = "flagged"
    /\ cdrain' = [cdrain EXCEPT ![c] = cwakers[tinner[ctok[c]]]]
    /\ cpc' = [cpc EXCEPT ![c] = "waking"]
    /\ UNCHANGED <<tokenVars, is_cancelled, cwakers, ctok, cancelReturned, obs,
                   seenTrue, pfut, ppc, pwake, woken>>
    /\ UNCHANGED <<execVars, ownerVars, timerVars>>

\* `let wakers = std::mem::take(&mut *self.inner.wakers.lock())`.
CancelTake(c) ==
    /\ cpc[c] = "flagged"
    /\ cdrain' = [cdrain EXCEPT ![c] = cwakers[tinner[ctok[c]]]]
    /\ cwakers' = [cwakers EXCEPT ![tinner[ctok[c]]] = <<>>]
    /\ cpc' = [cpc EXCEPT ![c] = "waking"]
    /\ UNCHANGED <<tokenVars, is_cancelled, ctok, cancelReturned, obs, seenTrue,
                   pfut, ppc, pwake, woken>>
    /\ UNCHANGED <<execVars, ownerVars, timerVars>>

\* `for waker in wakers { waker.wake() }`, one waker.
CancelWake(c) ==
    /\ cpc[c] = "waking"
    /\ cdrain[c] # <<>>
    /\ woken' = [woken EXCEPT ![Head(cdrain[c])] = @ + 1]
    /\ pwake' = [pwake EXCEPT ![Head(cdrain[c])] = TRUE]
    /\ cdrain' = [cdrain EXCEPT ![c] = Tail(@)]
    /\ UNCHANGED <<tokenVars, is_cancelled, cwakers, cpc, ctok, cancelReturned,
                   obs, seenTrue, pfut, ppc>>
    /\ UNCHANGED <<execVars, ownerVars, timerVars>>

\* The loop is over: cancel() returns.
CancelReturn(c) ==
    /\ cpc[c] = "waking"
    /\ cdrain[c] = <<>>
    /\ cpc' = [cpc EXCEPT ![c] = "idle"]
    /\ cancelReturned' = [cancelReturned EXCEPT ![ctok[c]] = TRUE]
    /\ ctok' = [ctok EXCEPT ![c] = NoToken]
    /\ UNCHANGED <<tokenVars, is_cancelled, cwakers, cdrain, obs, seenTrue,
                   pfut, ppc, pwake, woken>>
    /\ UNCHANGED <<execVars, ownerVars, timerVars>>

\* is_cancelled() on token k: `self.inner.is_cancelled.load(SeqCst)`.
IsCancelledValue(k) == is_cancelled[tinner[k]]

IsCancelled(k) ==
    /\ k \in Live
    /\ obs' = [tok |-> k, val |-> IsCancelledValue(k)]
    /\ seenTrue' = [seenTrue EXCEPT ![tinner[k]] =
                        IF @ = NoToken /\ IsCancelledValue(k) THEN k ELSE @]
    /\ UNCHANGED <<tokenVars, is_cancelled, cwakers, cpc, ctok, cdrain,
                   cancelReturned, pfut, ppc, pwake, woken>>
    /\ UNCHANGED <<execVars, ownerVars, timerVars>>

\* cancelled() on token k: CancelledFuture { inner: self.inner.clone() }.
Cancelled(p, k) ==
    /\ ppc[p] = "none"
    /\ k \in Live
    /\ pfut' = [pfut EXCEPT ![p] = tinner[k]]
    /\ ppc' = [ppc EXCEPT ![p] = "created"]
    /\ UNCHANGED <<tokenVars, is_cancelled, cwakers, cpc, ctok, cdrain,
                   cancelReturned, obs, seenTrue, pwake, woken>>
    /\ UNCHANGED <<execVars, ownerVars, timerVars>>

\* CancelledFuture::poll, the first load of the flag: Ready, or on to the
\* push.  The future is polled when it is new and after its waker was invoked.
FuturePoll(p) ==
    /\ ppc[p] = "created" \/ (ppc[p] = "pending" /\ pwake[p])
    /\ ppc' = [ppc EXCEPT ![p] = IF is_cancelled[pfut[p]] THEN "ready" ELSE "push"]
    /\ pwake' = [pwake EXCEPT ![p] = FALSE]
    /\ UNCHANGED <<tokenVars, is_cancelled, cwakers, cpc, ctok, cdrain,
                   cancelReturned, obs, seenTrue, pfut, woken>>
    /\ UNCHANGED <<execVars, ownerVars, timerVars>>

\* `self.inner.wakers.lock().push(cx.waker().clone())`.
FuturePush(p) ==
    /\ ppc[p] = "push"
    /\ cwakers' = [cwakers EXCEPT ![pfut[p]] = Append(@, p)]
    /\ ppc' = [ppc EXCEPT ![p] = "recheck"]
    /\ UNCHANGED <<tokenVars, is_cancelled, cpc, ctok, cdrain, cancelReturned,
                   obs, seenTrue, pfut, pwake, woken>>
    /\ UNCHANGED <<execVars, ownerVars, timerVars>>

\* A poll that returns Pending after the push, with no second load.
FutureRecheck_Skipped(p) ==
    /\ ppc[p] = "recheck"
    /\ ppc' = [ppc EXCEPT ![p] = "pending"]
    /\ UNCHANGED <<tokenVars, is_cancelled, cwakers, cpc, ctok, cdrain,
                   cancelReturned, obs, seenTrue, pfut, pwake, woken>>
    /\ UNCHANGED <<execVars, ownerVars, timerVars>>

\* The second load of the flag: Ready or Pending.
FutureRecheck(p) ==
    /\ ppc[p] = "recheck"
    /\ ppc' = [ppc EXCEPT ![p] = IF is_cancelled[pfut[p]] THEN "ready" ELSE "pending"]
    /\ UNCHANGED <<tokenVars, is_cancelled, cwakers, cpc, ctok, cdrain,
                   cancelReturned, obs, seenTrue, pfut, pwake, woken>>
    /\ UNCHANGED <<execVars, ownerVars, timerVars>>

CancelNext ==
    \/ TokenNew
    \/ \E k \in Tokens : TokenClone(k)
    \/ \E k \in Tokens : ChildToken(k)
    \/ \E c \in Cancellers, k \in Tokens : CancelStore(c, k)
    \/ \E c \in Cancellers : CancelTake(c)
    \/ \E c \in Cancellers : CancelWake(c)
    \/ \E c \in Cancellers : CancelReturn(c)
    \/ \E k \in Tokens : IsCancelled(k)
    \/ \E p \in Pollers, k \in Tokens : Cancelled(p, k)
    \/ \E p \in Pollers : FuturePoll(p)
    \/ \E p \in Pollers : FuturePush(p)
    \/ \E p \in Pollers : FutureRecheck(p)

\* The tokens, their cancel() and is_cancelled() callers and their futures.
CancelSpec == Init /\ [][CancelNext]_vars

\* What a thread inside cancel() does next.
CancelStep(c) == CancelTake(c) \/ CancelWake(c) \/ CancelReturn(c)
\* What the task awaiting a CancelledFuture does when it is polled.
FutureStep(p) == FuturePoll(p) \/ FuturePush(p) \/ FutureRecheck(p)

\* A token and its clones, the threads calling cancel() on them, and a task
\* awaiting cancelled().
AwaitNext ==
    \/ \E k \in Tokens : TokenClone(k)
    \/ \E c \in Cancellers, k \in Tokens : CancelStore(c, k)
    \/ \E c \in Cancellers : CancelStep(c)
    \/ \E p \in Pollers, k \in Tokens : Cancelled(p, k)
    \/ \E p \in Pollers : FutureStep(p)

AwaitSpec == Init /\ [][AwaitNext]_vars

\* A thread inside cancel() runs on to its return, and a task that is being
\* polled or was woken is polled to the end of that poll.
FairAwaitSpec ==
    /\ AwaitSpec
    /\ \A c \in Cancellers : WF_vars(CancelStep(c))
    /\ \A p \in Pollers : WF_vars(FutureStep(p))

\* registry.register(deadline, waker) called directly, as the unit tests of
\* the registry do, with any deadline, past or future.
RegistryRegister(s, d) ==
    /\ regAt[s] = NoTime
    /\ timers' = Register(timers, d, s)
    /\ deadline' = [deadline EXCEPT ![s] = d]
    /\ regAt' = [regAt EXCEPT ![s] = now]
    /\ UNCHANGED <<now, slpc, is_registered, t0, dur, readyAt, registry_lock,
                   notified, rpc, rdeadline, rwakers, fired, popNow, popFrom>>
    /\ UNCHANGED <<execVars, cancelVars, ownerVars>>

\* registry.pop_ready_wakers(Instant::now()) called directly, whatever the
\* registry holds.
RegistryPop ==
    /\ rwakers' = PopReady(timers, now)
    /\ timers' = PopPending(timers, now)
    /\ popNow' = now
    /\ popFrom' = timers
    /\ UNCHANGED <<now, sleepVars, registry_lock, notified, rpc, rdeadline, fired>>
    /\ UNCHANGED <<execVars, cancelVars, ownerVars>>

RegistryNext ==
    \/ Tick
    \/ \E s \in Sleepers, d \in Instants : RegistryRegister(s, d)
    \/ RegistryPop

\* A TimerRegistry on its own, driven as the unit tests drive it.
RegistrySpec == Init /\ [][RegistryNext]_vars

\* The clock, the tasks that sleep and the reactor thread.
TimerSpec == Init /\ [][TimerNext]_vars

\* The operating system schedules the reactor thread again and again.
FairTimerSpec == TimerSpec /\ WF_vars(ReactorStep)

\* ------------------------------------------------- a JoinHandle by hand
\* JoinHandle::poll with the waker o in its Context, up to the test of the
\* result: the guard of the result is taken; a result is taken out and
\* returned (the guard dropped with it), else the guard is kept.  A handle
\* that has returned Ready is not polled again.
HandlePollCheck(o) ==
    /\ jpoll.pc = "idle"
    /\ jpoll.out # "ready"
    /\ ~jstate.guard
    /\ IF jstate.result # None
       THEN /\ jstate' = [jstate EXCEPT !.result = None]
            /\ jpoll' = [pc |-> "idle", cx |-> o, out |-> "ready"]
       ELSE /\ jstate' = [jstate EXCEPT !.guard = TRUE]
            /\ jpoll' = [pc |-> "store", cx |-> o, out |-> jpoll.out]
    /\ UNCHANGED <<jcomp, jhist>>
    /\ UNCHANGED <<execVars, cancelVars, timerVars, finObs, wakeups>>

\* A poll that leaves a waker that is already in the slot where it is.
WakerStored_KeepsFirst == IF jstate.waker # NoWaker THEN jstate.waker ELSE jpoll.cx
\* `*self.state.waker.lock() = Some(cx.waker().clone())`.
WakerStored == jpoll.cx

\* The store of the waker, Poll::Pending, and the guard dropped.
HandlePollStore ==
    /\ jpoll.pc = "store"
    /\ jstate' = [jstate EXCEPT !.waker = WakerStored, !.guard = FALSE]
    /\ jpoll' = [jpoll EXCEPT !.pc = "idle", !.out = "pending"]
    /\ jhist' = [jhist EXCEPT !.stored = @ \cup {WakerStored}]
    /\ UNCHANGED jcomp
    /\ UNCHANGED <<execVars, cancelVars, timerVars, finObs, wakeups>>

\* JoinNotifier::complete: `*self.state.result.lock() = Some(result)`.
NotifierInstall ==
    /\ jcomp = "idle"
    /\ ~jstate.guard
    /\ \E v \in Values : jstate' = [jstate EXCEPT !.result = Ok(v)]
    /\ jcomp' = "installed"
    /\ UNCHANGED <<jpoll, jhist>>
    /\ UNCHANGED <<execVars, cancelVars, timerVars, finObs, wakeups>>

\* `if let Some(waker) = self.state.waker.lock().take() { waker.wake() }`.
NotifierWake ==
    /\ jcomp = "installed"
    /\ IF jstate.waker # NoWaker
       THEN /\ jhist' = [jhist EXCEPT !.invoked[jstate.waker] = @ + 1]
            /\ jstate' = [jstate EXCEPT !.waker = NoWaker]
       ELSE UNCHANGED <<jhist, jstate>>
    /\ jcomp' = "done"
    /\ UNCHANGED jpoll
    /\ UNCHANGED <<execVars, cancelVars, timerVars, finObs, wakeups>>

HandleNext ==
    \/ \E o \in Wakers : HandlePollCheck(o)
    \/ HandlePollStore
    \/ NotifierInstall
    \/ NotifierWake

\* JoinHandle::new, then polls of the handle with any wakers and one
\* complete() of its notifier, in any interleaving.
HandleSpec == Init /\ [][HandleNext]_vars

\* ------------------------------------------------------------ the system
WorkerStep(w) ==
    \/ Steal(w)
    \/ CheckShutdown(w)
    \/ ExecuteLock(w)
    \/ ExecuteWait(w)
    \/ PollPending(w)
    \/ PollPanic(w)
    \/ PollBody(w)
    \/ ParentBody(w)
    \/ ParentPush(w)
    \/ CompleteInstall(w)
    \/ CompleteWake(w)
    \/ JoinPollCheck(w)
    \/ JoinPollStore(w)

Next ==
    \/ SpawnCheck
    \/ \E k \in Kinds, tg \in Tasks \cup {NoTask}, v \in Values \cup {Unit} :
          SpawnPush(k, tg, v)
    \/ Run
    \/ Shutdown
    \/ Wait
    \/ \E w \in Workers : WorkerStep(w)

Spec == Init /\ [][Next]_vars

\* is_finished() answering whether the Task has finished its last poll.
IsFinishedValue_TaskDone(t) == fpc[t] = "done"
\* is_finished: `self.state.result.lock().is_some()`.
IsFinishedValue(t) == result[t] # None

\* is_finished() called by the thread that holds the JoinHandle of Task t; it
\* takes the result mutex for the read.
IsFinished(t) ==
    /\ handle[t] = "caller"
    /\ rlock[t] = NoWorker
    /\ finObs' = [finObs EXCEPT ![t] = IF IsFinishedValue(t) THEN "true" ELSE "false"]
    /\ UNCHANGED <<execVars, cancelVars, timerVars, wakeups, handleVars>>

OwnerNext ==
    \/ Next
    \/ \E t \in Tasks : IsFinished(t)

\* The executor, with the holders of JoinHandles asking is_finished().
OwnerSpec == Init /\ [][OwnerNext]_vars

\* Task::wake_by_ref, invoked by a holder of a clone of the waker that a poll
\* of t was given (wakers are Clone + Send: a future may hand its waker to
\* any thread, which may invoke it at any time, also when the Task has
\* completed): a reference to the Task is pushed onto the queue.
WakeByRef(t) ==
    /\ t \in Created
    /\ polls[t] >= 1
    /\ wakeups[t] < MaxWakes
    /\ queue' = Append(queue, t)
    /\ wakeups' = [wakeups EXCEPT ![t] = @ + 1]
    /\ UNCHANGED <<is_shutdown, started, taskVars, joinVars, workerVars,
                   callerVars, histVars>>
    /\ UNCHANGED <<cancelVars, timerVars, finObs, handleVars>>

WakeNext ==
    \/ Next
    \/ \E t \in Tasks : WakeByRef(t)

\* The executor, with wakers of its Tasks in the hands of other threads.
WakeSpec == Init /\ [][WakeNext]_vars

\* The operating system schedules every worker thread and the waiting thread
\* again and again; callers are free to stop calling.
FairSpec ==
    /\ Spec
    /\ \A w \in Workers : WF_vars(WorkerStep(w))
    /\ WF_vars(Wait)

\* WakeSpec under the same scheduling; the holders of wakers are free to
\* leave them alone.
FairWakeSpec ==
    /\ WakeSpec
    /\ \A w \in Workers : WF_vars(WorkerStep(w))
    /\ WF_vars(Wait)

TypeOK ==
    /\ queue \in Seq(Tasks)
    /\ is_shutdown \in BOOLEAN
    /\ \A t \in Tasks : flock[t] \in Workers \cup {NoWorker}
    /\ \A t \in Tasks : rlock[t] \in Workers \cup {NoWorker}
    /\ \A t \in Tasks : jwaker[t] \in Tasks \cup {NoTask}
    /\ \A w \in Workers : cur[w] \in Tasks \cup {NoTask}
    /\ Cardinality(Created) + Reserved + (IF spc = "push" THEN 1 ELSE 0) <= MaxTasks


\* ====================================================== the claims
\* "join" future j owns the JoinHandle of task t.
Awaits(j, t) == kind[j] = "join" /\ target[j] = t

\* C1: a Spawner::spawn call made while the shutdown flag is set returns
\* Err(RuntimeStopped) and leaves the queue and the tasks as they were; this
\* holds of the caller's spawn and of the spawn nested in a "parent" future.
C1_SpawnRefusedAfterShutdown ==
    [][ /\ (is_shutdown /\ spc = "idle" /\ <<spc, spawnRet>>' # <<spc, spawnRet>>)
           => (spawnRet' = "Err" /\ spc' = "idle"
               /\ queue' = queue /\ kind' = kind /\ future_slot' = future_slot)
        /\ \A t \in Tasks :
              (is_shutdown /\ kind[t] = "parent" /\ fpc[t] = "start"
                 /\ fpc'[t] # "start")
              => (fpc'[t] = "complete" /\ queue' = queue /\ kind' = kind)
      ]_vars

\* A refused call has returned while a Task was queued.
C1_Witness == is_shutdown /\ spawnRet = "Err" /\ queue # <<>>

\* C2: once a poll step of task t has panicked, its JoinState has been
\* completed with Err(Panicked): the result slot holds it, or the future
\* awaiting the handle has already taken it.
C2_PanicCompletesJoinState ==
    \A t \in Tasks :
        panicked[t] =>
            /\ future_slot[t] = "None"
            /\ \/ result[t] = ErrPanicked
               \/ \E j \in Tasks : Awaits(j, t) /\ got[j] = ErrPanicked

\* C3: no wakeup is lost between JoinNotifier::complete and JoinHandle::poll
\* (a join future suspended on the handle after complete has finished was
\* woken by it), and a join future that has begun to await a computation that
\* finishes with value v eventually gets Ok(v).
C3_JoinEventuallyOk ==
    /\ [](\A j, t \in Tasks :
             (Awaits(j, t) /\ fpc[t] = "done" /\ fpc[j] \in {"pending", "await"})
             => jwakes[t] = 1)
    /\ \A j, t \in Tasks :
          (Awaits(j, t) /\ polls[j] >= 1 /\ completions[t] = 1)
          ~> (got[j] = Ok(val[t]))

\* A join future got Ok(42) after its first poll had returned Pending and
\* complete had invoked the waker that poll stored.
C3_Witness ==
    \E j, t \in Tasks :
        Awaits(j, t) /\ kind[t] = "value" /\ jwakes[t] = 1 /\ polls[j] = 2
        /\ got[j] = Ok(42)

\* C4: the result slot of a JoinState goes from absent to present at most
\* once, and a waker taken from the JoinState is invoked at most once.
C4_CompletedAtMostOnce ==
    \A t \in Tasks : completions[t] <= 1 /\ jwakes[t] <= 1

\* A JoinState was completed, its waker invoked, and its result taken by the
\* awaiting future (the slot is absent again and stays so).
C4_Witness ==
    \E j, t \in Tasks :
        Awaits(j, t) /\ completions[t] = 1 /\ jwakes[t] = 1
        /\ result[t] = None /\ fpc[j] = "done"

\* C5: every task whose spawn succeeded before shutdown was requested is
\* polled at least once: when all workers have left their loops, no such task
\* is left unpolled.
C5_SpawnedBeforeShutdownIsPolled ==
    AllEnded => \A t \in Created : beforeShutdown[t] => polls[t] >= 1

\* C6: a never-suspending computation spawned before Runtime::run has its
\* body executed at most once at any time, and exactly once eventually (and
\* at the latest when the workers have ended).
C6_BodyRunsExactlyOnce ==
    /\ [](\A t \in Tasks :
             (kind[t] = "value" /\ beforeRun[t])
             => (bodyRuns[t] <= 1 /\ (AllEnded => bodyRuns[t] = 1)))
    /\ \A t \in Tasks :
          (started /\ kind[t] = "value" /\ beforeRun[t]) ~> (bodyRuns[t] = 1)

\* Every task was spawned before run, each body has run once, and the
\* workers have ended.
C6_Witness ==
    /\ AllEnded
    /\ Created = Tasks
    /\ \A t \in Tasks : kind[t] = "value" /\ beforeRun[t] /\ bodyRuns[t] = 1

\* C7: a worker that finds the queue empty with the shutdown flag set leaves
\* its loop, and once the flag is set and the queue stays empty,
\* RuntimeHandle::wait returns.
C7_ShutdownTerminates ==
    /\ [][\A w \in Workers :
            (wpc[w] = "empty" /\ is_shutdown /\ wpc'[w] # wpc[w]) => Ended(w)']_vars
    /\ (<>[](started /\ is_shutdown /\ queue = <<>>)) => <>waitReturned

\* wait has returned after the workers polled a task spawned before shutdown.
C7_Witness ==
    waitReturned /\ is_shutdown /\ \E t \in Tasks : polls[t] >= 1 /\ beforeShutdown[t]

\* C8: the step that sets the shutdown flag changes nothing else: not the
\* queue, no computation slot, no JoinState, no worker.
C8_ShutdownOnlySetsFlag ==
    [][(~is_shutdown /\ is_shutdown')
         => UNCHANGED <<queue, started, taskVars, joinVars, workerVars,
                        callerVars, histVars, cancelVars, ownerVars,
                        timerVars>>]_vars

\* The flag is set while a worker is inside a poll step and another Task is
\* still queued.
C8_Witness ==
    /\ is_shutdown
    /\ queue # <<>>
    /\ \E t \in Tasks : flock[t] # NoWorker /\ future_slot[t] = "Some"


\* C9: the flag of a CancellationState is never cleared, and once an
\* is_cancelled() call on a token of the state has returned true, every later
\* is_cancelled() call on any token of that state returns true.
C9_CancelledStaysTrue ==
    [][ /\ \A s \in States : is_cancelled[s] => is_cancelled'[s]
        /\ \A k \in Live :
              (seenTrue[tinner[k]] # NoToken /\ IsCancelled(k)) => obs'.val
      ]_vars

\* is_cancelled() returned true on one token and, later, on another token of
\* the same state, after a cancel() call on each of them had returned.
C9_Witness ==
    \E k1, k2 \in Live :
        /\ k1 # k2 /\ tinner[k1] = tinner[k2]
        /\ cancelReturned[k1] /\ cancelReturned[k2]
        /\ seenTrue[tinner[k1]] = k1
        /\ obs = [tok |-> k2, val |-> TRUE]

\* C10: once cancel() has returned on a token, is_cancelled() is true on
\* every token descending from the same new() token, by clone or child_token
\* and through any number of steps.
C10_CancelReachesAllTokens ==
    \A k1, k2 \in Live :
        (cancelReturned[k1] /\ troot[k1] = troot[k2]) => IsCancelledValue(k2)

\* cancel() returned on one token, and is_cancelled() has returned true on a
\* child of a clone of the same new() token.
C10_Witness ==
    \E k1, k2, k3 \in Live :
        /\ cancelReturned[k1]
        /\ tvia[k2] = "clone" /\ tvia[k3] = "child" /\ tparent[k3] = k2
        /\ troot[k3] = troot[k1] /\ k3 # k1
        /\ obs = [tok |-> k3, val |-> TRUE]


\* C11: a cancel() call made when the flag is already set, with no other
\* cancel() call in progress, finds no waker in the state: it has none to
\* invoke and leaves the state as it was.
C11_SecondCancelWakesNothing ==
    [][ \A c \in Cancellers, k \in Tokens :
          (/\ CancelStore(c, k)
           /\ is_cancelled[tinner[k]]
           /\ \A c2 \in Cancellers : cpc[c2] = "idle")
          => cwakers[tinner[k]] = <<>>
      ]_vars


\* C12: a task awaiting a CancelledFuture is not stranded by a concurrent
\* cancel(): whenever its poll has returned Pending and the flag is set, its
\* waker has been invoked, or is held by a cancel() call that will invoke it,
\* or is in the list that a cancel() call past its store is about to take;
\* and once the flag is set the future is eventually Ready.
C12_NotStranded ==
    /\ [](\A p \in Pollers :
            (ppc[p] = "pending" /\ is_cancelled[pfut[p]]) =>
                \/ pwake[p]
                \/ \E c \in Cancellers :
                      cpc[c] = "waking" /\ \E i \in DOMAIN cdrain[c] : cdrain[c][i] = p
                \/ /\ \E i \in DOMAIN cwakers[pfut[p]] : cwakers[pfut[p]][i] = p
                   /\ \E c \in Cancellers :
                         cpc[c] = "flagged" /\ tinner[ctok[c]] = pfut[p])
    /\ \A p \in Pollers :
          (ppc[p] \in {"created", "push", "recheck", "pending"} /\ is_cancelled[pfut[p]])
              ~> (ppc[p] = "ready")

\* A poll returned Pending, a concurrent cancel() drained and invoked the
\* waker, and the poll that followed returned Ready.
C12_Witness ==
    \E p \in Pollers : ppc[p] = "ready" /\ woken[p] = 1


InQueue(t) == \E i \in DOMAIN queue : queue[i] = t

\* C16: the worker whose poll step panicked is back at the steal of its loop,
\* no worker has ended and the shutdown flag is as it was; and a Task that is
\* on the queue after a panic is polled, unless shutdown is requested first.
C16_WorkerSurvivesPanic ==
    /\ [][ \A w \in Workers :
             PollPanic(w) =>
                /\ wpc'[w] = "steal"
                /\ \A w2 \in Workers : wpc'[w2] # "ended" \/ wpc[w2] = "ended"
                /\ is_shutdown' = is_shutdown /\ queue' = queue
         ]_vars
    /\ \A t \in Tasks :
          ((\E t1 \in Tasks : panicked[t1]) /\ InQueue(t) /\ future_slot[t] = "Some")
              ~> (polls[t] >= 1 \/ is_shutdown)

\* One worker alone has stolen Tasks: it caught the panic of t1 and after it
\* stole and polled t2.
C16_Witness ==
    \E w \in Workers, t1, t2 \in Tasks :
        /\ t1 # t2 /\ panicked[t1]
        /\ cur[w] = t2 /\ polls[t2] >= 1
        /\ \A w2 \in Workers \ {w} : cur[w2] = NoTask


\* The reactor has invoked the waker of s.
Fired(s) == \E i \in DOMAIN fired : fired[i] = s

\* C13: a SleepFuture made by sleep(d) at clock t0 returns Ready only from a
\* poll whose clock reading is at least t0 + d, whatever polls it is given.
C13_SleepNotEarly ==
    \A s \in Sleepers : slpc[s] = "ready" => readyAt[s] >= t0[s] + dur[s]

\* A sleep of a positive duration returned Pending, registered its waker, was
\* woken by the reactor and then returned Ready.
C13_Witness ==
    \E s \in Sleepers : slpc[s] = "ready" /\ dur[s] >= 1 /\ Fired(s)


\* The reactor invoked the waker of s1 before that of s2.
FiredBefore(s1, s2) ==
    \E i, j \in DOMAIN fired : i < j /\ fired[i] = s1 /\ fired[j] = s2

\* C14: of two wakers registered with deadlines d1 < d2, both before the
\* clock reached d1, the reactor invokes the d1 waker before the d2 waker.
C14_TimerOrdering ==
    \A s1, s2 \in Sleepers :
        (/\ regAt[s1] # NoTime /\ regAt[s2] # NoTime
         /\ deadline[s1] < deadline[s2]
         /\ regAt[s1] < deadline[s1] /\ regAt[s2] < deadline[s1]
         /\ Fired(s2))
        => FiredBefore(s1, s2)

\* Two such wakers were popped by one pass of the reactor, which ran late,
\* and both have been invoked.
C14_Witness ==
    \E s1, s2 \in Sleepers :
        /\ regAt[s1] # NoTime /\ regAt[s2] # NoTime
        /\ deadline[s1] < deadline[s2]
        /\ regAt[s1] < deadline[s1] /\ regAt[s2] < deadline[s1]
        /\ popFrom[deadline[s1]] # <<>> /\ popFrom[deadline[s2]] # <<>>
        /\ FiredBefore(s1, s2)


\* C15: a waker registered with the reactor is invoked once the clock has
\* reached its deadline, wherever the reactor thread stood when the waker
\* was registered, and also when the deadline had passed at registration.
C15_RegisteredWakerFires ==
    \A s \in Sleepers :
        (regAt[s] # NoTime /\ now >= deadline[s]) ~> Fired(s)

\* A waker registered when its deadline had already passed has been invoked,
\* by a pass of the reactor that popped it alone.
C15_Witness ==
    \E s \in Sleepers :
        /\ Fired(s) /\ regAt[s] >= deadline[s]
        /\ popFrom[deadline[s]] = <<s>>
        /\ \A d \in Instants \ {deadline[s]} : popFrom[d] = <<>>
        /\ Len(fired) = 1


\* The entries of registry reg: <<deadline, position in the Vec>>.
Held(reg) == {e \in Instants \X (1..NumSleepers) : e[2] <= Len(reg[e[1]])}

\* C18: pop_ready_wakers(now) returns exactly the wakers registered with a
\* deadline <= now, each once and in non-decreasing deadline order, and
\* leaves exactly the entries with a deadline > now, so afterwards
\* next_deadline() is the smallest deadline left, or None.
C18_PopReadyExact ==
    [][ (RegistryPop \/ ReactorPop) =>
          /\ Len(rwakers') = Cardinality({e \in Held(timers) : e[1] <= now})
          /\ \A e \in Held(timers) : e[1] <= now =>
                Cardinality({i \in DOMAIN rwakers' : rwakers'[i] = timers[e[1]][e[2]]}) = 1
          /\ \A i, j \in DOMAIN rwakers' :
                i < j => deadline[rwakers'[i]] <= deadline[rwakers'[j]]
          /\ \A d \in Instants : timers'[d] = IF d > now THEN timers[d] ELSE <<>>
          /\ IF \E d \in Instants : d > now /\ timers[d] # <<>>
             THEN /\ NextDeadline(timers') > now
                  /\ timers[NextDeadline(timers')] # <<>>
                  /\ \A d \in Instants :
                        (d > now /\ timers[d] # <<>>) => NextDeadline(timers') <= d
             ELSE NextDeadline(timers') = NoTime
      ]_vars

\* A pop of a registry holding a deadline equal to the clock reading and a
\* later one: the waker of the first was returned, the second entry stayed.
C18_Witness ==
    /\ popNow # NoTime
    /\ popFrom[popNow] # <<>>
    /\ rwakers = popFrom[popNow]
    /\ \E d \in Instants : d > popNow /\ popFrom[d] # <<>> /\ timers[d] = popFrom[d]


\* Waker s is in registry reg.
InRegistry(reg, s) == \E e \in Held(reg) : reg[e[1]][e[2]] = s
\* Waker s is among the reactor's popped wakers still to be invoked.
InWakers(s) == \E i \in DOMAIN rwakers : rwakers[i] = s

\* C19: the reactor invokes each registered waker at most once: a waker it
\* has popped is no longer in the registry when it is dispatched, and a
\* waker it has invoked is neither in the registry nor among its wakers.
C19_WakerFiredAtMostOnce ==
    \A s \in Sleepers :
        /\ Cardinality({i \in DOMAIN fired : fired[i] = s}) <= 1
        /\ InWakers(s) => ~InRegistry(timers, s)
        /\ Fired(s) => ~InRegistry(timers, s) /\ ~InWakers(s)

\* Both wakers have been invoked, and the reactor is parked on an empty
\* registry.
C19_Witness ==
    /\ Len(fired) = NumSleepers
    /\ rpc = "wait"
    /\ Keys(timers) = {}

\* C20: the reactor thread does not hold the registry mutex when it invokes
\* a waker, and while it holds the mutex it has no popped waker left to
\* invoke.
C20_NoWakeUnderLock ==
    /\ [][ReactorDispatch => registry_lock # "reactor"]_vars
    /\ [](registry_lock = "reactor" => rwakers = <<>>)

\* register_timer went through, at a later clock reading than the pop's,
\* while the reactor still had a popped waker to invoke.
C20_Witness ==
    /\ rpc = "dispatch" /\ rwakers # <<>>
    /\ \E s \in Sleepers : regAt[s] # NoTime /\ regAt[s] > popNow /\ InRegistry(timers, s)


\* C17: is_finished() on the JoinHandle of a Task returns false from the
\* creation of the handle until complete has installed the result, and true
\* once it has.
C17_IsFinishedIffCompleted ==
    [][ \A t \in Tasks :
          IsFinished(t) =>
             finObs'[t] = IF completions[t] >= 1 THEN "true" ELSE "false"
      ]_vars

\* is_finished() returned true while complete, past the install of the
\* result, had not yet returned, and false on another handle whose Task has
\* not been polled yet.
C17_Witness ==
    \E t1, t2 \in Tasks :
        /\ finObs[t1] = "true" /\ fpc[t1] = "wake"
        /\ finObs[t2] = "false" /\ polls[t2] = 0


\* C21: at most one worker at a time is polling the future of a Task, and it
\* is the worker that holds the lock of the Task's slot.
C21_PollingExclusion ==
    \A t \in Tasks :
        /\ Cardinality({w \in Workers : wpc[w] = "poll" /\ cur[w] = t}) <= 1
        /\ \A w \in Workers : (wpc[w] = "poll" /\ cur[w] = t) => flock[t] = w

\* Two workers have dequeued references to the same Task: one is polling it,
\* the other is parked on the lock of its slot.
C21_Witness ==
    \E w1, w2 \in Workers, t \in Tasks :
        /\ w1 # w2 /\ cur[w1] = t /\ cur[w2] = t
        /\ wpc[w1] = "poll" /\ wpc[w2] = "blocked"


\* w leaves the entry of execute_task (the lock and the test of the slot).
Entered(w) ==
    /\ wpc[w] \in {"execute", "blocked"}
    /\ wpc'[w] \notin {"execute", "blocked"}

\* w returns from execute_task without a poll of its Task.
ReturnsUnpolled(w) ==
    /\ wpc'[w] = "steal"
    /\ polls' = polls
    /\ flock' = flock

\* C22 as stated: a worker that saw the polling lock held skips the Task, and
\* a worker that sees the slot empty returns without polling.
C22_DuplicateSkipped ==
    [][ \A w \in Workers :
          Entered(w) =>
            /\ wpc[w] = "blocked" => ReturnsUnpolled(w)
            /\ future_slot[cur[w]] # "Some" => ReturnsUnpolled(w)
      ]_vars

\* C22 (amended): a worker that finds the polling lock held waits for it, and
\* goes on only once the lock is free; it then returns without polling when
\* the slot is empty, and polls the Task (holding the lock) when the slot is
\* still occupied.
C22_DuplicateWaits ==
    [][ \A w \in Workers :
          /\ (wpc[w] \in {"execute", "blocked"} /\ flock[cur[w]] # NoWorker)
                => wpc'[w] \in {"execute", "blocked"}
          /\ Entered(w) =>
                /\ flock[cur[w]] = NoWorker
                /\ IF future_slot[cur[w]] = "Some"
                   THEN /\ wpc'[w] = "poll"
                        /\ flock'[cur[w]] = w
                        /\ polls'[cur[w]] = polls[cur[w]] + 1
                   ELSE ReturnsUnpolled(w)
      ]_vars

\* A worker parked on the lock of a duplicate reference finds the lock
\* released and the slot still occupied: the poll before it returned Pending.
C22_Witness ==
    \E w \in Workers :
        /\ wpc[w] = "blocked"
        /\ flock[cur[w]] = NoWorker
        /\ future_slot[cur[w]] = "Some"
        /\ polls[cur[w]] >= 1


\* Invocations of a waker derived from Task t: of the one its
\* JoinHandle::poll stored in the awaited JoinState, by
\* JoinNotifier::complete, and of the clones in other hands.
WakesOn(t) == (IF kind[t] = "join" THEN jwakes[target[t]] ELSE 0) + wakeups[t]

\* References to Task t that are yet to be executed: its occurrences in the
\* queue and the workers that dequeued it and stand before the poll.
Refs(t) ==
    Cardinality({i \in DOMAIN queue : queue[i] = t})
    + Cardinality({w \in Workers :
                     wpc[w] \in {"execute", "blocked"} /\ cur[w] = t})

\* C23: a Task reference enters the queue only through spawn (once) or through
\* an invocation of a waker of the Task, never from the Pending arm of a
\* worker: the polls of a Task, together with its references still to be
\* executed, never exceed one plus the waker invocations on it.
C23_PollsBoundedByWakes ==
    \A t \in Created : polls[t] + Refs(t) <= 1 + WakesOn(t)

\* A Task was polled to Pending, woken once and polled a second time.
C23_Witness ==
    \E t \in Created :
        /\ polls[t] = 2
        /\ WakesOn(t) = 1
        /\ Refs(t) = 0


\* C24: a computation slot that has been cleared stays empty and its Task is
\* never polled again; the worker that dequeues a reference to such a Task
\* returns without polling.
C24_ClearedSlotStaysEmpty ==
    [][ /\ \A t \in Tasks :
              future_slot[t] = "None"
                => /\ future_slot'[t] = "None"
                   /\ polls'[t] = polls[t]
                   /\ bodyRuns'[t] = bodyRuns[t]
        /\ \A w \in Workers :
              (Entered(w) /\ future_slot[cur[w]] = "None") => ReturnsUnpolled(w)
      ]_vars

\* A stale wakeup has been served: the waker of a completed Task was invoked,
\* the reference it pushed has been dequeued and given up, and the Task has
\* one poll fewer than it had references.
C24_Witness ==
    \E t \in Created :
        /\ future_slot[t] = "None"
        /\ wakeups[t] >= 1
        /\ Refs(t) = 0
        /\ polls[t] < 1 + WakesOn(t)


\* Worker w is inside run_worker_loop.
Running(w) == wpc[w] \notin {"idle", "ended"}

\* C25: a reference that the invocation of a waker pushed onto the queue
\* (the Task has been polled before, so the reference of its spawn is gone)
\* while a worker is running is eventually dequeued.
C25_WakerToRequeue ==
    \A t \in Tasks :
        (polls[t] >= 1 /\ InQueue(t) /\ \E w \in Workers : Running(w))
            ~> ~InQueue(t)


\* The registrations of the waker of s that the Reactor has received: a
\* registered waker stays in the registry until the reactor pops it, then
\* among the popped wakers until it is invoked.
Registrations(s) ==
    Cardinality(UNION {{<<d, i>> : i \in {j \in DOMAIN timers[d] : timers[d][j] = s}}
                          : d \in Instants})
    + Cardinality({i \in DOMAIN rwakers : rwakers[i] = s})
    + Cardinality({i \in DOMAIN fired : fired[i] = s})

\* C26: a SleepFuture registers its waker at most once.  Its flag, once set,
\* stays set; a poll at or after the deadline returns Ready and a poll of a
\* registered future before the deadline returns Pending, neither of them
\* registering; only the poll of an unregistered future before its deadline
\* goes on to register.
C26_RegistersAtMostOnce ==
    /\ [](\A s \in Sleepers :
            /\ Registrations(s) <= 1
            /\ is_registered[s] <=> Registrations(s) = 1)
    /\ [][ \A s \in Sleepers :
             /\ is_registered[s] => is_registered'[s]
             /\ (slpc[s] \in {"created", "pending"} /\ slpc'[s] # slpc[s])
                   => /\ timers' = timers
                      /\ slpc'[s] = IF now >= deadline[s] THEN "ready"
                                    ELSE IF is_registered[s] THEN "pending"
                                    ELSE "register"
             /\ Registrations(s)' > Registrations(s)
                   => slpc[s] = "register" /\ slpc'[s] = "pending"
         ]_vars

\* A registered future was polled again before the reactor invoked its waker
\* and returned Ready, with its one registration still in place.
C26_Witness ==
    \E s \in Sleepers :
        /\ slpc[s] = "ready"
        /\ is_registered[s]
        /\ ~Fired(s)
        /\ Registrations(s) = 1


\* The waker of p is in the waker collection of the state its future is on.
InCollection(p) ==
    pfut[p] # NoState /\ \E i \in DOMAIN cwakers[pfut[p]] : cwakers[pfut[p]][i] = p

\* The copies of the waker of p that exist or were invoked: in a waker
\* collection, in the local list of a cancel() under way, and invoked.
Copies(p) ==
    Cardinality(UNION {{<<st, i>> : i \in {j \in DOMAIN cwakers[st] : cwakers[st][j] = p}}
                          : st \in States})
    + Cardinality(UNION {{<<c, i>> : i \in {j \in DOMAIN cdrain[c] : cdrain[c][j] = p}}
                            : c \in Cancellers})
    + woken[p]

\* C27: cancel() takes the whole collection and leaves it empty; a waker
\* goes from the collection to the local list of one cancel() and from there
\* to its invocation, so that concurrent cancel() calls neither invoke one
\* waker twice nor lose one; and a waker that is in the collection when a
\* cancel() has set the flag is invoked, once.
C27_DrainedExactlyOnce ==
    /\ [][ /\ \A c \in Cancellers :
                (cpc[c] = "flagged" /\ cpc'[c] = "waking")
                  => /\ cdrain'[c] = cwakers[tinner[ctok[c]]]
                     /\ cwakers'[tinner[ctok[c]]] = <<>>
           /\ \A p \in Pollers :
                Copies(p)' = Copies(p)
                    + (IF ppc[p] = "push" /\ ppc'[p] = "recheck" THEN 1 ELSE 0)
         ]_vars
    /\ \A p \in Pollers :
          (/\ InCollection(p)
           /\ \E c \in Cancellers :
                 cpc[c] = "flagged" /\ tinner[ctok[c]] = pfut[p])
            ~> (woken[p] = 1 /\ Copies(p) = 1)

\* Two cancel() calls on the state of an awaited future have both passed
\* their take, one of them with the waker, and the waker was invoked once.
C27_Witness ==
    \E p \in Pollers :
        /\ woken[p] = 1
        /\ Copies(p) = 1
        /\ Cardinality({c \in Cancellers :
                          cpc[c] = "waking" /\ tinner[ctok[c]] = pfut[p]}) >= 2


\* C28: a poll that finds no result leaves in the waker slot the waker of its
\* own Context, whatever the slot held, so that the slot holds the waker of
\* the last poll that returned Pending and complete() invokes that one and
\* no other; a poll that finds a result takes it and leaves the waker slot
\* alone.
C28_WakerSlotOverwritten ==
    /\ [][ /\ (jpoll.pc = "store" /\ jpoll'.pc = "idle")
                => jstate'.waker = jpoll.cx /\ jpoll'.out = "pending"
           /\ (jpoll.out # "ready" /\ jpoll'.out = "ready")
                => /\ jstate.result # None
                   /\ jstate'.result = None
                   /\ jstate'.waker = jstate.waker
           /\ jhist'.invoked # jhist.invoked
                => /\ jstate.waker # NoWaker
                   /\ jstate'.waker = NoWaker
                   /\ jhist'.invoked =
                        [jhist.invoked EXCEPT ![jstate.waker] = @ + 1]
         ]_vars
    /\ [](/\ (jpoll.pc = "idle" /\ jpoll.out = "pending" /\ jcomp # "done")
               => jstate.waker = jpoll.cx
          /\ \A o \in Wakers :
               /\ jhist.invoked[o] <= 1
               /\ jhist.invoked[o] = 1 => jcomp = "done" /\ o \in jhist.stored
          /\ Cardinality({o \in Wakers : jhist.invoked[o] >= 1}) <= 1)

\* The handle was polled to Pending with every waker in turn, and complete()
\* invoked the waker of the last of these polls and none of the others.
C28_Witness ==
    /\ jhist.stored = Wakers
    /\ jcomp = "done"
    /\ jhist.invoked[jpoll.cx] = 1
    /\ \A o \in Wakers \ {jpoll.cx} : jhist.invoked[o] = 0


\* Worker w has dequeued a reference to Task t while another worker is
\* inside the poll of t, and that poll is about to return Pending.
WokenDuringPoll(w, t) ==
    /\ cur[w] = t
    /\ wpc[w] \in {"execute", "blocked"}
    /\ flock[t] \notin {NoWorker, w}
    /\ fpc[t] = "pending"

\* C29: a wake that arrives while its Task is being polled is not lost: when
\* the poll returns Pending, the worker that dequeued the reference of the
\* wake waits for the polling lock and then polls the Task again (or finds
\* the slot cleared by a poll that another reference got in before it).
C29_WakeDuringPollNotLost ==
    \A w \in Workers, t \in Tasks :
        WokenDuringPoll(w, t)
            ~> ((wpc[w] = "poll" /\ cur[w] = t) \/ future_slot[t] = "None")

\* An awaiting Task is inside its first poll, its waker stored and already
\* invoked by the completion of the Task it awaits, and the worker that
\* dequeued the reference is parked on the polling lock.
C29_Witness ==
    \E w \in Workers, t \in Tasks :
        /\ WokenDuringPoll(w, t)
        /\ wpc[w] = "blocked"
        /\ kind[t] = "join"
        /\ polls[t] = 1
        /\ jwakes[target[t]] = 1
        /\ wakeups[t] = 0


\* Worker w stands at the lock() of a mutex that worker v holds: the polling
\* lock of the Task it dequeued, the result lock of the JoinState its
\* JoinHandle::poll is about to test, or the result lock of the JoinState
\* its complete() is about to fill.
WaitsFor(w, v) ==
    \/ /\ wpc[w] \in {"execute", "blocked"}
       /\ flock[cur[w]] = v
    \/ /\ wpc[w] = "poll"
       /\ kind[cur[w]] = "join"
       /\ fpc[cur[w]] \in {"start", "await"}
       /\ rlock[target[cur[w]]] = v
    \/ /\ Polling(w, cur[w], "complete")
       /\ rlock[cur[w]] = v

====
